---- MODULE Spec2Model ----
(***************************************************************************)
(* A model of three files of educe:                                        *)
(*   educe/ptb/annotation.py            (PTB tokens and node labels)       *)
(*   educe/stac/learning/doc_vectorizer.py  (label vectorizers)            *)
(*   educe/stac/learning/cmd/extract.py     (the extract subcommand)       *)
(*                                                                         *)
(* A Python string is a sequence of one-character strings.  A call that    *)
(* may raise returns a record [raised, value].  An optional argument is    *)
(* None (the empty tuple) or a one-element tuple holding the value.        *)
(***************************************************************************)
EXTENDS Integers, Sequences, FiniteSets, TLC

VARIABLES
    pc,                          \* position of the running call
    label,                       \* basic_category: the label given
    idx,                         \* result of post_basic_category_index(label)
    cat,                         \* result of basic_category(label)
    cat2,                        \* result of basic_category(cat)
    tree,                        \* strip_subcategory: the tree node given
    retain_TMP_subcategories,    \* strip_subcategory: flag
    retain_NPTMP_subcategories,  \* strip_subcategory: flag
    globals_bound,               \* are treenode and ConstituencyTree bound in the module
    stripped,                    \* result of strip_subcategory(tree, ...)
    text,                        \* is_nonword_token: the text given
    nonword,                     \* result of is_nonword_token(text)
    word,                        \* TweakedToken: the word given
    tag,                         \* TweakedToken: the tag given
    tweaked_word,                \* TweakedToken: the tweaked_word given, or None
    prefix,                      \* TweakedToken: the prefix given, or None
    tok,                         \* the TweakedToken constructed
    vectorizer,                  \* the class of the vectorizer constructed
    labels,                      \* the labels given to its constructor
    labelset_,                   \* its labelset_ attribute
    raw_documents,               \* the documents given to transform
    gen,                         \* the generator transform returned
    pos,                         \* the document and instance the generator is at
    emitted,                     \* the integers the generator has yielded
    args,                        \* main: the parsed command line
    output_exists,               \* does the output directory exist
    corpus_read,                 \* has the corpus been read
    dir_created,                 \* has main created the output directory
    dumped,                      \* the files dumped
    ran,                         \* the extractions entered
    outcome                      \* how main ended

vars == <<pc, label, idx, cat, cat2, tree, retain_TMP_subcategories,
          retain_NPTMP_subcategories, globals_bound, stripped,
          text, nonword, word, tag, tweaked_word, prefix, tok,
          vectorizer, labels, labelset_, raw_documents, gen, pos, emitted,
          args, output_exists, corpus_read, dir_created, dumped, ran, outcome>>

-----------------------------------------------------------------------------
(* Bounds of the model                                                     *)

MaxLabelLen == 5
MaxPieces == 3
MaxTextPieces == 5
MaxWordLen == 2
MaxLabels == 3
MaxDocs == 2
MaxInstances == 2

-----------------------------------------------------------------------------
(* Python values                                                           *)

None == << >>
Some(x) == <<x>>

Returned(v) == [raised |-> FALSE, value |-> v]
Raised(v) == [raised |-> TRUE, value |-> v]

Min(a, b) == IF a < b THEN a ELSE b

\* s[lo:hi] for 0 <= lo, 0 <= hi
Slice(s, lo, hi) == SubSeq(s, lo + 1, Min(hi, Len(s)))

\* sub in s
Contains(s, sub) ==
    \E k \in 0..(Len(s) - Len(sub)) : SubSeq(s, k + 1, k + Len(sub)) = sub

\* s.startswith(sub)
StartsWith(s, sub) ==
    Len(sub) <= Len(s) /\ SubSeq(s, 1, Len(sub)) = sub

\* all strings over the alphabet chars of length at most n
StringsUpTo(chars, n) == UNION {[1..k -> chars] : k \in 0..n}

RECURSIVE Concat(_)
\* the concatenation of a sequence of strings
Concat(ss) == IF ss = << >> THEN << >> ELSE Head(ss) \o Concat(Tail(ss))

-----------------------------------------------------------------------------
(* educe/ptb/annotation.py: is_nonword_token                               *)
(* A pattern is matched by the set of positions a match can end at, given  *)
(* the set of positions it can start at (position p is after p characters) *)

Digit == {"0", "1", "2", "3", "4", "5", "6", "7", "8", "9"}

\* a literal string w
Lit(s, P, w) ==
    {p + Len(w) : p \in {q \in P : /\ q + Len(w) <= Len(s)
                                   /\ SubSeq(s, q + 1, q + Len(w)) = w}}

\* an alternation (w1|w2|...) of literal strings
AnyOf(s, P, W) == UNION {Lit(s, P, w) : w \in W}

\* \d*
DigitStar(s, P) ==
    {q \in 0..Len(s) : \E p \in P : p <= q /\ \A k \in (p + 1)..q : s[k] \in Digit}

\* the pattern without its final $
EndAnchorAbsent(s, P) == P

\* $ without re.MULTILINE: at the end of the string, or before a newline that
\* ends the string
EndAnchor(s, P) ==
    {p \in P : p = Len(s) \/ (p = Len(s) - 1 /\ s[Len(s)] = "\n")}

TraceNames ==
    { <<"T">>, <<"I", "C", "H">>, <<"E", "X", "P">>, <<"R", "N", "R">>,
      <<"P", "P", "A">> }
MarkerNames == { <<"U">>, <<"?">>, <<"N", "O", "T">> }

\* _SKIP_RE.match(text): the pattern is anchored at position 0 by match and ^
SKIP_RE_match(s) ==
    LET start == {0}
        star == Lit(s, start, <<"*">>)
        named == Lit(s, AnyOf(s, star, TraceNames), <<"*">>)
        dash == Lit(s, star \cup named, <<"-">>)
        trace == DigitStar(s, dash)
        zero == Lit(s, start, <<"0">>)
        marker == Lit(s, AnyOf(s, star, MarkerNames), <<"*">>)
    IN EndAnchor(s, trace \cup zero \cup star \cup marker) # {}

is_nonword_token(s) == SKIP_RE_match(s)

-----------------------------------------------------------------------------
(* educe/ptb/annotation.py: TweakedToken                                   *)

\* RawToken.__init__ (educe.external.postag): a token is a word and a tag
RawToken__init__(self, w, t) ==
    [k \in (DOMAIN self) \cup {"word", "tag"} |->
        IF k = "word" THEN w ELSE IF k = "tag" THEN t ELSE self[k]]

\* the constructor with the offset taken from the prefixed word
TweakedToken__init__offset_of_tweak(w, t, tweaked, pre) ==
    LET tweak0 == IF tweaked = None THEN w ELSE tweaked[1]
        tweak == IF pre = None THEN tweak0 ELSE pre[1] \o tweak0
        offset == IF pre = None THEN 0 ELSE Len(tweak)
    IN RawToken__init__([tweaked_word |-> tweak, offset |-> offset], w, t)

TweakedToken__init__(w, t, tweaked, pre) ==
    LET tweak0 == IF tweaked = None THEN w ELSE tweaked[1]
        tweak == IF pre = None THEN tweak0 ELSE pre[1] \o tweak0
        offset == IF pre = None THEN 0 ELSE Len(pre[1])
    IN RawToken__init__([tweaked_word |-> tweak, offset |-> offset], w, t)

-----------------------------------------------------------------------------
(* educe/ptb/annotation.py: the basic category of a label                  *)

\* label annotation introducing characters
laic == {"-", "="}

\* the test below with i > 0 written for i > 1
closes_leading_token_at_1(first_char, i, c) ==
    first_char # "" /\ i > 0 /\ c = first_char

\* the test that lets a second occurrence of the first character pass
closes_leading_token(first_char, i, c) ==
    first_char # "" /\ i > 1 /\ c = first_char

\* the for loop of post_basic_category_index from index i on; broke tells
\* whether it left by break, i is the loop variable when it left
RECURSIVE scan(_, _, _)
scan(lbl, i, first_char) ==
    IF i >= Len(lbl)
    THEN [broke |-> FALSE, i |-> i - 1]
    ELSE LET c == lbl[i + 1] IN
         IF c \in laic
         THEN IF i = 0
              THEN scan(lbl, i + 1, c)
              ELSE IF closes_leading_token(first_char, i, c)
                   THEN scan(lbl, i + 1, "")
                   ELSE [broke |-> TRUE, i |-> i]
         ELSE scan(lbl, i + 1, first_char)

\* the loop without its else clause
for_else_missing(i) == i

\* the else clause of the for loop: the loop ended without break
for_else(i) == i + 1

\* On the empty label the loop body never runs, i is unbound and the else
\* clause raises UnboundLocalError.
post_basic_category_index(lbl) ==
    IF Len(lbl) = 0
    THEN Raised(0)
    ELSE LET r == scan(lbl, 0, "") IN
         Returned(IF r.broke THEN r.i ELSE for_else(r.i))

\* basic_category without its test of the empty label
basic_category_unguarded(lbl) ==
    LET r == post_basic_category_index(lbl) IN
    IF r.raised THEN Raised(<< >>) ELSE Returned(Slice(lbl, 0, r.value))

basic_category(lbl) ==
    IF lbl # << >>
    THEN LET r == post_basic_category_index(lbl) IN
         IF r.raised THEN Raised(<< >>) ELSE Returned(Slice(lbl, 0, r.value))
    ELSE Returned(lbl)

-----------------------------------------------------------------------------
(* educe/ptb/annotation.py: strip_subcategory                              *)

\* the label of a tree node
treenode(t) == t.label

\* The function computes the normalised label in a local variable and
\* returns the tree it was given; label is that local variable at the return.
\* It raises NameError when treenode and ConstituencyTree, which the module
\* does not import, are not bound.
strip_subcategory(t, retain_TMP, retain_NPTMP, bound) ==
    IF ~bound
    THEN Raised([tree |-> t, label |-> << >>])
    ELSE LET label0 == treenode(t)
             label1 ==
                 IF t.constituency
                 THEN IF retain_TMP /\ Contains(label0, <<"-", "T", "M", "P">>)
                      THEN basic_category(label0).value \o <<"-", "T", "M", "P">>
                      ELSE IF retain_NPTMP
                              /\ StartsWith(label0, <<"N", "P", "-", "T", "M", "P">>)
                           THEN <<"N", "P", "-", "T", "M", "P">>
                           ELSE basic_category(label0).value
                 ELSE label0
         IN Returned([tree |-> t, label |-> label1])

-----------------------------------------------------------------------------
(* educe/stac/learning/doc_vectorizer.py                                   *)
(* A dict is a function from its keys.  A document is the sequence of the  *)
(* instances instance_generator enumerates from it, each given by what the *)
(* code reads of it: the value of edu.dialogue_act() for an EDU (None when *)
(* unset), the relation doc.relations holds for a pair (None when the pair *)
(* is no key of it).                                                       *)

UNK == "__UNK__"
ROOT == "ROOT"
UNRELATED == "UNRELATED"

\* d[k] = v
SetItem(d, k, v) == [x \in (DOMAIN d) \cup {k} |-> IF x = k THEN v ELSE d[x]]

\* {l: i for i, l in enumerate(ls, start=start)}: a later item replaces an
\* earlier one with the same key
enumerate_dict(ls, start) ==
    [l \in {ls[k] : k \in 1..Len(ls)} |->
        start - 1 + CHOOSE k \in 1..Len(ls) :
                        /\ ls[k] = l
                        /\ \A j \in (k + 1)..Len(ls) : ls[j] # l]

\* the constructor with enumerate left at its default start of 0
DialogueActVectorizer__init__from0(ls) ==
    SetItem(enumerate_dict(ls, 0), UNK, 0)

DialogueActVectorizer__init__(ls) ==
    SetItem(enumerate_dict(ls, 1), UNK, 0)

LabelVectorizer__init__(ls) ==
    SetItem(SetItem(SetItem(enumerate_dict(ls, 3), UNK, 0), ROOT, 1),
            UNRELATED, 2)

\* the instances enumerated from a document
instance_generator(doc) == doc

\* edu.dialogue_act() or UNK
dialogue_act_label(edu) ==
    IF edu = None \/ edu = Some("") THEN UNK ELSE edu[1]

\* doc.relations.get(pair, UNRELATED)
relation_label(pair) ==
    IF pair = None THEN UNRELATED ELSE pair[1]

\* the two nested for loops: the first instance at or after instance i of
\* document d, or << >> when the documents are exhausted
RECURSIVE next_instance(_, _, _)
next_instance(docs, d, i) ==
    IF d > Len(docs)
    THEN << >>
    ELSE IF i <= Len(instance_generator(docs[d]))
         THEN <<d, i>>
         ELSE next_instance(docs, d + 1, 1)

\* yield self.labelset_[label] for the instance at nxt: the generator yields
\* the index and is suspended after it, or the subscription raises KeyError
\* and ends the generator
yield_index(labelset, lbl, nxt, out) ==
    IF lbl \in DOMAIN labelset
    THEN [gen |-> "suspended", pos |-> <<nxt[1], nxt[2] + 1>>,
          emitted |-> Append(out, labelset[lbl])]
    ELSE [gen |-> "KeyError", pos |-> nxt, emitted |-> out]

\* one next() of the generator DialogueActVectorizer.transform returned: it
\* runs to the next yield, to the end of the documents (StopIteration) or to
\* a KeyError
DialogueActVectorizer_transform(labelset, docs, at, out) ==
    LET nxt == next_instance(docs, at[1], at[2]) IN
    IF nxt = << >>
    THEN [gen |-> "exhausted", pos |-> at, emitted |-> out]
    ELSE LET edu == instance_generator(docs[nxt[1]])[nxt[2]] IN
         yield_index(labelset, dialogue_act_label(edu), nxt, out)

\* one next() of the generator LabelVectorizer.transform returned
LabelVectorizer_transform(labelset, docs, at, out) ==
    LET nxt == next_instance(docs, at[1], at[2]) IN
    IF nxt = << >>
    THEN [gen |-> "exhausted", pos |-> at, emitted |-> out]
    ELSE LET pair == instance_generator(docs[nxt[1]])[nxt[2]] IN
         yield_index(labelset, relation_label(pair), nxt, out)

-----------------------------------------------------------------------------
(* educe/stac/learning/cmd/extract.py                                      *)

\* the if statement with the test of --single first
main_single_first(a) ==
    IF a.single THEN "main_corpus_single"
    ELSE IF a.parsing /\ a.single THEN "sys.exit"
    ELSE IF a.parsing THEN "Still broken"
    ELSE "main_corpus_pairs"

\* the if statement of main
main(a) ==
    IF a.parsing /\ a.single THEN "sys.exit"
    ELSE IF a.parsing THEN "Still broken"
    ELSE IF a.single THEN "main_corpus_single"
    ELSE "main_corpus_pairs"

\* out_file of main_corpus_single and of main_corpus_pairs
out_file_single(a) == <<a.corpus, ".just-edus.sparse">>
out_file_pairs(a) == <<a.corpus, ".relations.sparse">>

-----------------------------------------------------------------------------
(* Inputs                                                                  *)

LabelChars == {"-", "=", "N", "P"}
LabelsUpTo(n) == StringsUpTo(LabelChars, n)

LabelPieces ==
    { <<"N", "P">>, <<"P", "P">>, <<"-", "T", "M", "P">>,
      <<"-", "S", "B", "J">>, <<"=", "2">> }
PieceLabelsUpTo(n) == {Concat(ps) : ps \in StringsUpTo(LabelPieces, n)}

NoResult == Returned(<< >>)
NoTree == [label |-> << >>, constituency |-> FALSE]

IdleCategory ==
    /\ label = << >>
    /\ idx = Returned(0)
    /\ cat = NoResult
    /\ cat2 = NoResult

IdleStrip ==
    /\ tree = NoTree
    /\ retain_TMP_subcategories = FALSE
    /\ retain_NPTMP_subcategories = FALSE
    /\ globals_bound = FALSE
    /\ stripped = Returned([tree |-> NoTree, label |-> << >>])

TextPieces ==
    { <<"*">>, <<"T">>, <<"P", "P", "A">>, <<"U">>, <<"-">>, <<"0">>, <<"d">>,
      <<"\n">> }
TextsUpTo(n) == {Concat(ps) : ps \in StringsUpTo(TextPieces, n)}

WordChars == {"U", "."}
WordsUpTo(n) == StringsUpTo(WordChars, n)
Optional(S) == {None} \cup {Some(x) : x \in S}
Tags == {"NNP", "."}

NoToken == [word |-> << >>, tag |-> "", tweaked_word |-> << >>, offset |-> 0]

IdleNonword ==
    /\ text = << >>
    /\ nonword = FALSE

IdleToken ==
    /\ word = << >>
    /\ tag = ""
    /\ tweaked_word = None
    /\ prefix = None
    /\ tok = NoToken

LabelNames == {"a", "b", UNK, UNRELATED}
LabelListsUpTo(n) == StringsUpTo(LabelNames, n)

\* what the code reads of an instance: no label, the empty string, a label
\* the label lists hold, a label they do not hold
Observed == Optional({"", "a", "c"})
DocumentsUpTo(docs, instances) ==
    StringsUpTo(StringsUpTo(Observed, instances), docs)

SampleLabelLists == { << >>, <<"a">>, <<"a", "b">>, <<"b", "a", "a">> }

\* document sequences that end by exhaustion and by KeyError
SampleDocuments ==
    { << >>,
      << <<None, Some("a")>>, << >>, <<Some("b")>> >>,
      << <<Some("a")>>, <<Some("c"), None>> >> }

Corpora == {"pilot", "socl-season1"}
Windows == {-1, 5}

IdleVectorizer ==
    /\ vectorizer = "none"
    /\ labels = << >>
    /\ labelset_ = << >>
    /\ raw_documents = << >>
    /\ gen = "none"
    /\ pos = <<1, 1>>
    /\ emitted = << >>

IdleMain ==
    /\ args = [parsing |-> FALSE, single |-> FALSE, corpus |-> "", window |-> 5]
    /\ output_exists = FALSE
    /\ corpus_read = FALSE
    /\ dir_created = FALSE
    /\ dumped = {}
    /\ ran = {}
    /\ outcome = "none"

vectorizerVars ==
    <<vectorizer, labels, labelset_, raw_documents, gen, pos, emitted>>
mainVars ==
    <<args, output_exists, corpus_read, dir_created, dumped, ran, outcome>>
nonwordVars == <<text, nonword>>
tokenVars == <<word, tag, tweaked_word, prefix, tok>>
categoryVars == <<label, idx, cat, cat2>>
stripVars ==
    <<tree, retain_TMP_subcategories, retain_NPTMP_subcategories,
      globals_bound, stripped>>

-----------------------------------------------------------------------------
(* Specification of the label functions: SpecCategory                      *)

InitCategory ==
    /\ pc = "start"
    /\ label \in LabelsUpTo(MaxLabelLen)
    /\ idx = Returned(0)
    /\ cat = NoResult
    /\ cat2 = NoResult
    /\ IdleStrip
    /\ IdleNonword
    /\ IdleToken
    /\ IdleVectorizer
    /\ IdleMain

CallPostBasicCategoryIndex ==
    /\ pc = "start"
    /\ idx' = post_basic_category_index(label)
    /\ pc' = "indexed"
    /\ UNCHANGED <<label, cat, cat2, stripVars, nonwordVars, tokenVars,
                   vectorizerVars, mainVars>>

CallBasicCategory ==
    /\ pc = "indexed"
    /\ cat' = basic_category(label)
    /\ pc' = "categorised"
    /\ UNCHANGED <<label, idx, cat2, stripVars, nonwordVars, tokenVars,
                   vectorizerVars, mainVars>>

CallBasicCategoryAgain ==
    /\ pc = "categorised"
    /\ ~cat.raised
    /\ cat2' = basic_category(cat.value)
    /\ pc' = "recategorised"
    /\ UNCHANGED <<label, idx, cat, stripVars, nonwordVars, tokenVars,
                   vectorizerVars, mainVars>>

NextCategory ==
    \/ CallPostBasicCategoryIndex
    \/ CallBasicCategory
    \/ CallBasicCategoryAgain

SpecCategory == InitCategory /\ [][NextCategory]_vars

-----------------------------------------------------------------------------
(* Specification of strip_subcategory: SpecStrip                           *)

InitStrip ==
    /\ pc = "start"
    /\ IdleCategory
    /\ tree \in [label : PieceLabelsUpTo(MaxPieces), constituency : BOOLEAN]
    /\ retain_TMP_subcategories \in BOOLEAN
    /\ retain_NPTMP_subcategories \in BOOLEAN
    /\ globals_bound \in BOOLEAN
    /\ stripped = Returned([tree |-> NoTree, label |-> << >>])
    /\ IdleNonword
    /\ IdleToken
    /\ IdleVectorizer
    /\ IdleMain

CallStripSubcategory ==
    /\ pc = "start"
    /\ stripped' = strip_subcategory(tree, retain_TMP_subcategories,
                                     retain_NPTMP_subcategories, globals_bound)
    /\ pc' = "stripped"
    /\ UNCHANGED <<categoryVars, tree, retain_TMP_subcategories,
                   retain_NPTMP_subcategories, globals_bound, nonwordVars,
                   tokenVars, vectorizerVars, mainVars>>

NextStrip == CallStripSubcategory

SpecStrip == InitStrip /\ [][NextStrip]_vars

-----------------------------------------------------------------------------
(* Specification of is_nonword_token: SpecNonword                          *)

InitNonword ==
    /\ pc = "start"
    /\ IdleCategory
    /\ IdleStrip
    /\ IdleToken
    /\ IdleVectorizer
    /\ IdleMain
    /\ text \in TextsUpTo(MaxTextPieces)
    /\ nonword = FALSE

CallIsNonwordToken ==
    /\ pc = "start"
    /\ nonword' = is_nonword_token(text)
    /\ pc' = "matched"
    /\ UNCHANGED <<categoryVars, stripVars, tokenVars, text, vectorizerVars,
                   mainVars>>

NextNonword == CallIsNonwordToken

SpecNonword == InitNonword /\ [][NextNonword]_vars

-----------------------------------------------------------------------------
(* Specification of TweakedToken: SpecToken                                *)

InitToken ==
    /\ pc = "start"
    /\ IdleCategory
    /\ IdleStrip
    /\ IdleNonword
    /\ IdleVectorizer
    /\ IdleMain
    /\ word \in WordsUpTo(MaxWordLen)
    /\ tag \in Tags
    /\ tweaked_word \in Optional(WordsUpTo(MaxWordLen))
    /\ prefix \in Optional(WordsUpTo(MaxWordLen))
    /\ tok = NoToken

ConstructTweakedToken ==
    /\ pc = "start"
    /\ tok' = TweakedToken__init__(word, tag, tweaked_word, prefix)
    /\ pc' = "constructed"
    /\ UNCHANGED <<categoryVars, stripVars, nonwordVars, word, tag,
                   tweaked_word, prefix, vectorizerVars, mainVars>>

NextToken == ConstructTweakedToken

SpecToken == InitToken /\ [][NextToken]_vars

-----------------------------------------------------------------------------
(* Specifications of the vectorizers: SpecVectorizer draws the documents   *)
(* from all short document sequences, SpecLabelset draws the labels from   *)
(* all short label lists                                                   *)

ptbIdle ==
    /\ IdleCategory
    /\ IdleStrip
    /\ IdleNonword
    /\ IdleToken

ptbVars == <<categoryVars, stripVars, nonwordVars, tokenVars>>

InitVectorizerFrom(lists) ==
    /\ pc = "start"
    /\ ptbIdle
    /\ IdleMain
    /\ vectorizer = "none"
    /\ labels \in lists
    /\ labelset_ = << >>
    /\ raw_documents = << >>
    /\ gen = "none"
    /\ pos = <<1, 1>>
    /\ emitted = << >>

ConstructDialogueActVectorizer ==
    /\ pc = "start"
    /\ vectorizer' = "DialogueActVectorizer"
    /\ labelset_' = DialogueActVectorizer__init__(labels)
    /\ pc' = "constructed"
    /\ UNCHANGED <<ptbVars, mainVars, labels, raw_documents, gen, pos, emitted>>

ConstructLabelVectorizer ==
    /\ pc = "start"
    /\ vectorizer' = "LabelVectorizer"
    /\ labelset_' = LabelVectorizer__init__(labels)
    /\ pc' = "constructed"
    /\ UNCHANGED <<ptbVars, mainVars, labels, raw_documents, gen, pos, emitted>>

\* transform(raw_documents) returns a new generator; none of its body runs
\* before the first next()
CallTransform(documents) ==
    /\ pc \in {"constructed", "transforming"}
    /\ raw_documents' \in documents
    /\ gen' = "suspended"
    /\ pos' = <<1, 1>>
    /\ emitted' = << >>
    /\ pc' = "transforming"
    /\ UNCHANGED <<ptbVars, mainVars, vectorizer, labels, labelset_>>

NextOfDialogueActTransform ==
    /\ pc = "transforming"
    /\ vectorizer = "DialogueActVectorizer"
    /\ gen = "suspended"
    /\ LET r == DialogueActVectorizer_transform(labelset_, raw_documents, pos,
                                                emitted) IN
       /\ gen' = r.gen
       /\ pos' = r.pos
       /\ emitted' = r.emitted
    /\ UNCHANGED <<ptbVars, mainVars, pc, vectorizer, labels, labelset_,
                   raw_documents>>

NextOfLabelTransform ==
    /\ pc = "transforming"
    /\ vectorizer = "LabelVectorizer"
    /\ gen = "suspended"
    /\ LET r == LabelVectorizer_transform(labelset_, raw_documents, pos,
                                          emitted) IN
       /\ gen' = r.gen
       /\ pos' = r.pos
       /\ emitted' = r.emitted
    /\ UNCHANGED <<ptbVars, mainVars, pc, vectorizer, labels, labelset_,
                   raw_documents>>

InitVectorizer == InitVectorizerFrom(SampleLabelLists)

TransformDocuments == CallTransform(DocumentsUpTo(MaxDocs, MaxInstances))

NextVectorizer ==
    \/ ConstructDialogueActVectorizer
    \/ ConstructLabelVectorizer
    \/ TransformDocuments
    \/ NextOfDialogueActTransform
    \/ NextOfLabelTransform

SpecVectorizer == InitVectorizer /\ [][NextVectorizer]_vars

InitLabelset == InitVectorizerFrom(LabelListsUpTo(MaxLabels))

TransformSampleDocuments == CallTransform(SampleDocuments)

NextLabelset ==
    \/ ConstructDialogueActVectorizer
    \/ ConstructLabelVectorizer
    \/ TransformSampleDocuments
    \/ NextOfDialogueActTransform
    \/ NextOfLabelTransform

SpecLabelset == InitLabelset /\ [][NextLabelset]_vars

-----------------------------------------------------------------------------
(* Specification of the extract subcommand: SpecExtract                    *)

InitExtract ==
    /\ pc = "main"
    /\ ptbIdle
    /\ IdleVectorizer
    /\ args \in [parsing : BOOLEAN, single : BOOLEAN, corpus : Corpora,
                  window : Windows]
    /\ output_exists \in BOOLEAN
    /\ corpus_read = FALSE
    /\ dir_created = FALSE
    /\ dumped = {}
    /\ ran = {}
    /\ outcome = "none"

\* main up to the call it makes or the exception it raises
Main ==
    /\ pc = "main"
    /\ LET branch == main(args) IN
       \/ /\ branch = "sys.exit"
          /\ outcome' = "SystemExit"
          /\ pc' = "done"
          /\ ran' = ran
       \/ /\ branch = "Still broken"
          /\ outcome' = "Exception"
          /\ pc' = "done"
          /\ ran' = ran
       \/ /\ branch = "main_corpus_single"
          /\ outcome' = outcome
          /\ pc' = "single:read_corpus_inputs"
          /\ ran' = ran \cup {"single"}
       \/ /\ branch = "main_corpus_pairs"
          /\ outcome' = outcome
          /\ pc' = "pairs:read_corpus_inputs"
          /\ ran' = ran \cup {"pairs"}
    /\ UNCHANGED <<ptbVars, vectorizerVars, args, output_exists, corpus_read,
                   dir_created, dumped>>

\* features.read_corpus_inputs(args), and the lazy feature and label
\* generators built from it
SingleReadCorpusInputs ==
    /\ pc = "single:read_corpus_inputs"
    /\ corpus_read' = TRUE
    /\ pc' = "single:makedirs"
    /\ UNCHANGED <<ptbVars, vectorizerVars, args, output_exists, dir_created,
                   dumped, ran, outcome>>

PairsReadCorpusInputs ==
    /\ pc = "pairs:read_corpus_inputs"
    /\ corpus_read' = TRUE
    /\ pc' = "pairs:makedirs"
    /\ UNCHANGED <<ptbVars, vectorizerVars, args, output_exists, dir_created,
                   dumped, ran, outcome>>

\* if not fp.exists(args.output): os.makedirs(args.output)
SingleMakedirs ==
    /\ pc = "single:makedirs"
    /\ output_exists' = TRUE
    /\ dir_created' = (dir_created \/ ~output_exists)
    /\ pc' = "single:dump_edu_input_file"
    /\ UNCHANGED <<ptbVars, vectorizerVars, args, corpus_read, dumped, ran,
                   outcome>>

PairsMakedirs ==
    /\ pc = "pairs:makedirs"
    /\ output_exists' = TRUE
    /\ dir_created' = (dir_created \/ ~output_exists)
    /\ pc' = "pairs:dump_all"
    /\ UNCHANGED <<ptbVars, vectorizerVars, args, corpus_read, dumped, ran,
                   outcome>>

SingleDumpEduInputFile ==
    /\ pc = "single:dump_edu_input_file"
    /\ dumped' = dumped \cup {out_file_single(args) \o <<".edu_input">>}
    /\ pc' = "single:dump_svmlight_file"
    /\ UNCHANGED <<ptbVars, vectorizerVars, args, output_exists, corpus_read,
                   dir_created, ran, outcome>>

SingleDumpSvmlightFile ==
    /\ pc = "single:dump_svmlight_file"
    /\ dumped' = dumped \cup {out_file_single(args)}
    /\ pc' = "single:dump_vocabulary"
    /\ UNCHANGED <<ptbVars, vectorizerVars, args, output_exists, corpus_read,
                   dir_created, ran, outcome>>

SingleDumpVocabulary ==
    /\ pc = "single:dump_vocabulary"
    /\ dumped' = dumped \cup {out_file_single(args) \o <<".vocab">>}
    /\ pc' = "done"
    /\ outcome' = "returned"
    /\ UNCHANGED <<ptbVars, vectorizerVars, args, output_exists, corpus_read,
                   dir_created, ran>>

PairsDumpAll ==
    /\ pc = "pairs:dump_all"
    /\ dumped' = dumped \cup {out_file_pairs(args)}
    /\ pc' = "pairs:dump_vocabulary"
    /\ UNCHANGED <<ptbVars, vectorizerVars, args, output_exists, corpus_read,
                   dir_created, ran, outcome>>

PairsDumpVocabulary ==
    /\ pc = "pairs:dump_vocabulary"
    /\ dumped' = dumped \cup {out_file_pairs(args) \o <<".vocab">>}
    /\ pc' = "done"
    /\ outcome' = "returned"
    /\ UNCHANGED <<ptbVars, vectorizerVars, args, output_exists, corpus_read,
                   dir_created, ran>>

NextExtract ==
    \/ Main
    \/ SingleReadCorpusInputs
    \/ SingleMakedirs
    \/ SingleDumpEduInputFile
    \/ SingleDumpSvmlightFile
    \/ SingleDumpVocabulary
    \/ PairsReadCorpusInputs
    \/ PairsMakedirs
    \/ PairsDumpAll
    \/ PairsDumpVocabulary

SpecExtract == InitExtract /\ [][NextExtract]_vars

-----------------------------------------------------------------------------
(* Properties of the label functions                                       *)

IsPrefix(p, s) == Len(p) <= Len(s) /\ SubSeq(s, 1, Len(p)) = p

Minimum(S) == CHOOSE m \in S : \A n \in S : m <= n

\* the positions >= 1 that hold an annotation character
AnnotationPositions(lbl) == {i \in 1..(Len(lbl) - 1) : lbl[i + 1] \in laic}

\* when position 0 holds an annotation character, the first position >= 2
\* that holds the same character
ClosingPosition(lbl) ==
    IF Len(lbl) > 0 /\ lbl[1] \in laic
    THEN LET same == {i \in 2..(Len(lbl) - 1) : lbl[i + 1] = lbl[1]} IN
         IF same = {} THEN {} ELSE {Minimum(same)}
    ELSE {}

\* the scan as a set of positions: the label is cut at the first annotation
\* position that is not the closing position, and kept whole when there is none
ReferenceCategory(lbl) ==
    LET cuts == AnnotationPositions(lbl) \ ClosingPosition(lbl) IN
    IF cuts = {} THEN lbl ELSE SubSeq(lbl, 1, Minimum(cuts))

\* the labels section 8 names
CategoryExamples ==
    /\ basic_category(<<"N", "P", "-", "T", "M", "P", "-", "1">>)
          = Returned(<<"N", "P">>)
    /\ basic_category(<<"-", "L", "R", "B", "-">>)
          = Returned(<<"-", "L", "R", "B", "-">>)
    /\ basic_category(<<"P", "P", "=", "2">>) = Returned(<<"P", "P">>)
    /\ basic_category(<< >>) = Returned(<< >>)

\* C1: basic_category(label) is the label cut at the first '-' or '=' at a
\* position >= 1, where one later occurrence (position >= 2) of an annotation
\* character held by position 0 is passed over; without a cut position the
\* label is returned whole, and the empty label gives the empty string.
\* NP-TMP-1 gives NP, -LRB- gives -LRB-, PP=2 gives PP.
C1_BasicCategoryIsReferenceScan ==
    /\ pc \in {"categorised", "recategorised"}
          => cat = Returned(ReferenceCategory(label))
    /\ CategoryExamples

C1_Witness ==
    /\ pc = "categorised"
    /\ label = <<"-", "N", "-", "=", "P">>
    /\ cat = Returned(<<"-", "N", "-">>)

DoubleHyphenExample ==
    basic_category(<<"-", "-", "P", "U">>) = Returned(<<"-">>)

\* C9: basic_category never raises and returns a prefix of the label; for a
\* non-empty label post_basic_category_index lies in 1..len(label), so the
\* category is empty only for the empty label; --P gives -.
C9_CategoryNeverCutsAtFirstChar ==
    /\ (pc # "start" /\ label # << >>)
          => (~idx.raised /\ 1 <= idx.value /\ idx.value <= Len(label))
    /\ pc \in {"categorised", "recategorised"}
          => /\ ~cat.raised
             /\ IsPrefix(cat.value, label)
             /\ (cat.value = << >> <=> label = << >>)
    /\ DoubleHyphenExample

C9_Witness ==
    /\ pc = "categorised"
    /\ label = <<"-", "-", "P">>
    /\ idx = Returned(1)
    /\ cat = Returned(<<"-">>)

IdempotentExamples ==
    \A lbl \in { <<"-", "L", "R", "B", "-", "-", "T", "M", "P">>,
                  <<"-", "-", "P", "U">> } :
        basic_category(basic_category(lbl).value) = basic_category(lbl)

\* C10: basic_category is idempotent: applying it to a basic category gives
\* that basic category again.
C10_BasicCategoryIdempotent ==
    /\ pc = "recategorised" => (~cat2.raised /\ cat2 = cat)
    /\ IdempotentExamples

C10_Witness ==
    /\ pc = "recategorised"
    /\ label = <<"-", "N", "-", "-", "P">>
    /\ cat2 = Returned(<<"-", "N", "-">>)

-----------------------------------------------------------------------------
(* Properties of strip_subcategory                                         *)

NP_TMP == <<"N", "P", "-", "T", "M", "P">>
TMP == <<"-", "T", "M", "P">>

\* the label section 4.4 asks for
NormalisedLabel(lbl, retain_TMP, retain_NPTMP) ==
    IF retain_NPTMP /\ StartsWith(lbl, NP_TMP)
    THEN NP_TMP
    ELSE IF retain_TMP /\ Contains(lbl, TMP)
         THEN basic_category(lbl).value \o TMP
         ELSE basic_category(lbl).value

\* C2: on a constituency node strip_subcategory yields NP-TMP when NP-TMP is
\* retained and the label starts with NP-TMP, else <basic category>-TMP when
\* TMP is retained and the label contains -TMP, else the basic category.
C2_StripSubcategoryYieldsNormalisedLabel ==
    (pc = "stripped" /\ tree.constituency /\ globals_bound)
        => /\ ~stripped.raised
           /\ treenode(stripped.value.tree)
                 = NormalisedLabel(treenode(tree), retain_TMP_subcategories,
                                   retain_NPTMP_subcategories)

\* The label strip_subcategory computes before it returns, which it does not
\* store in the tree, is the label of section 4.4: the two retention tests
\* give the same label in either order.
StripComputesNormalisedLabel ==
    (pc = "stripped" /\ tree.constituency /\ globals_bound)
        => stripped.value.label
              = NormalisedLabel(treenode(tree), retain_TMP_subcategories,
                                retain_NPTMP_subcategories)

-----------------------------------------------------------------------------
(* Properties of is_nonword_token                                          *)

AllDigits(s, from) == \A k \in from..Len(s) : s[k] \in Digit

\* *X*-n with X a trace name and n a number
NumberedTrace(s) ==
    \E X \in TraceNames :
        LET head == <<"*">> \o X \o <<"*", "-">> IN
        StartsWith(s, head) /\ Len(s) > Len(head) /\ AllDigits(s, Len(head) + 1)

\* *-d or *X*-d with X a trace name and d a string of digits, which may be empty
IndexedTrace(s) ==
    \E head \in {<<"*", "-">>} \cup {<<"*">> \o X \o <<"*", "-">> : X \in TraceNames} :
        StartsWith(s, head) /\ AllDigits(s, Len(head) + 1)

SpecialMarker(s) == \E X \in MarkerNames : s = <<"*">> \o X \o <<"*">>

\* the text without the one newline that may end it
Chomp(s) ==
    IF Len(s) > 0 /\ s[Len(s)] = "\n" THEN SubSeq(s, 1, Len(s) - 1) ELSE s

\* the texts section 8 names
NonwordExamples ==
    /\ is_nonword_token(<<"*", "T", "*", "-", "1">>)
    /\ is_nonword_token(<<"*", "I", "C", "H", "*", "-", "2", "3">>)
    /\ is_nonword_token(<<"0">>)
    /\ is_nonword_token(<<"*">>)
    /\ is_nonword_token(<<"*", "U", "*">>)
    /\ is_nonword_token(<<"*", "?", "*">>)
    /\ is_nonword_token(<<"*", "N", "O", "T", "*">>)
    /\ ~is_nonword_token(<<"d", "o", "g">>)
    /\ ~is_nonword_token(<<"*", "s", "t", "a", "r", "r", "e", "d", "*">>)

\* C3 as stated: is_nonword_token(text) is true exactly when the whole text is
\* *X*-n (X in T, ICH, EXP, RNR, PPA; n a number), 0, *, *U*, *?* or *NOT*.
C3_NonwordIffListedMarker ==
    pc = "matched"
        => (nonword <=> \/ NumberedTrace(text)
                        \/ text = <<"0">>
                        \/ text = <<"*">>
                        \/ SpecialMarker(text))

\* C3 as amended: is_nonword_token(text) is true exactly when the text, less
\* one newline that may end it, is *-d or *X*-d (X in T, ICH, EXP, RNR, PPA;
\* d a possibly empty string of digits), 0, *, *U*, *?* or *NOT*.
C3_NonwordIffMarkerUpToNewline ==
    /\ pc = "matched"
          => (nonword <=> \/ IndexedTrace(text) \/ IndexedTrace(Chomp(text))
                          \/ Chomp(text) = <<"0">>
                          \/ Chomp(text) = <<"*">>
                          \/ SpecialMarker(Chomp(text)))
    /\ NonwordExamples

C3_Witness ==
    /\ pc = "matched"
    /\ text = <<"*", "P", "P", "A", "*", "-", "0">>
    /\ nonword

-----------------------------------------------------------------------------
(* Properties of TweakedToken                                              *)

OrEmpty(opt) == IF opt = None THEN << >> ELSE opt[1]

\* the tokens section 8 names
TweakedTokenExamples ==
    /\ LET t == TweakedToken__init__(<<"U", ".", "S", ".">>, "NNP", None, None) IN
       t.tweaked_word = <<"U", ".", "S", ".">> /\ t.offset = 0
    /\ LET t == TweakedToken__init__(<<"U", ".", "S", ".">>, "NNP", None,
                                     Some(<<"X">>)) IN
       t.tweaked_word = <<"X", "U", ".", "S", ".">> /\ t.offset = 1

\* C4: the token holds the word and the tag given; its tweaked_word is the
\* prefix (empty when not given) followed by the tweaked_word given, or by the
\* word when none is given; its offset is the length of the prefix, 0 when
\* there is none; so offset <= len(tweaked_word) and tweaked_word starts with
\* the prefix.
C4_TweakedTokenFields ==
    /\ pc = "constructed"
          => /\ tok.word = word
             /\ tok.tag = tag
             /\ tok.tweaked_word
                   = OrEmpty(prefix)
                        \o (IF tweaked_word = None THEN word ELSE tweaked_word[1])
             /\ tok.offset = Len(OrEmpty(prefix))
             /\ tok.offset <= Len(tok.tweaked_word)
             /\ StartsWith(tok.tweaked_word, OrEmpty(prefix))
    /\ TweakedTokenExamples

C4_Witness ==
    /\ pc = "constructed"
    /\ word = <<"U", ".">>
    /\ tweaked_word = Some(<< >>)
    /\ prefix = Some(<<".">>)
    /\ tok.tweaked_word = <<".">>
    /\ tok.offset = 1

-----------------------------------------------------------------------------
(* Properties of the vectorizers                                           *)

Constructed == pc \in {"constructed", "transforming"}

\* the instances of the documents, in document order then instance order
AllInstances == Concat([d \in 1..Len(raw_documents) |->
                           instance_generator(raw_documents[d])])

\* the consumption of the generator has ended
Consumed == pc = "transforming" /\ gen \in {"exhausted", "KeyError"}

\* the label observed on an instance: none, or the label recorded
Unlabelled(inst) == inst = None
NoLabelIndex == IF vectorizer = "DialogueActVectorizer" THEN 0 ELSE 2

\* C5: consumed to its end, transform has emitted one integer per instance,
\* the k-th for the k-th instance in document order then instance order: the
\* index labelset_ gives the label of the instance, 0 for an EDU without
\* dialogue act, 2 for a pair without relation.
C5_TransformEmitsOneIndexPerInstance ==
    Consumed
        => /\ Len(emitted) = Len(AllInstances)
           /\ \A k \in 1..Len(emitted) :
                 LET inst == AllInstances[k] IN
                 IF Unlabelled(inst)
                 THEN emitted[k] = NoLabelIndex
                 ELSE inst[1] \in DOMAIN labelset_
                         => emitted[k] = labelset_[inst[1]]

\* What transform does emit is right: at every point of the consumption the
\* k-th integer emitted is the index of the k-th instance, and a generator
\* that ends by StopIteration has emitted one integer per instance.
TransformEmitsInOrder ==
    pc = "transforming"
        => /\ Len(emitted) <= Len(AllInstances)
           /\ gen = "exhausted" => Len(emitted) = Len(AllInstances)
           /\ \A k \in 1..Len(emitted) :
                 LET inst == AllInstances[k] IN
                 IF Unlabelled(inst)
                 THEN emitted[k] = NoLabelIndex
                 ELSE inst[1] \in DOMAIN labelset_
                         => emitted[k] = labelset_[inst[1]]

\* C6: for an instance whose label is no key of labelset_, transform emits the
\* unknown index 0 and goes on to the next instance; it does not fail.
C6_UnknownLabelFallsBackToUnk ==
    pc = "transforming"
        => /\ gen # "KeyError"
           /\ \A k \in 1..Len(emitted) :
                 LET inst == AllInstances[k] IN
                 (~Unlabelled(inst) /\ inst[1] # "" /\ inst[1] \notin DOMAIN labelset_)
                     => emitted[k] = 0

Sentinels ==
    IF vectorizer = "DialogueActVectorizer" THEN {UNK} ELSE {UNK, ROOT, UNRELATED}

LabelsetWellFormed ==
    Constructed
        => /\ DOMAIN labelset_ = {labels[k] : k \in 1..Len(labels)} \cup Sentinels
           /\ \A k1, k2 \in DOMAIN labelset_ :
                 k1 # k2 => labelset_[k1] # labelset_[k2]
           /\ labelset_[UNK] = 0
           /\ vectorizer = "LabelVectorizer"
                 => (labelset_[ROOT] = 1 /\ labelset_[UNRELATED] = 2)
           /\ \A l \in (DOMAIN labelset_) \ Sentinels :
                 labelset_[l] >= Cardinality(Sentinels)

\* C7: whatever labels the constructor is given, repeated ones and sentinel
\* names included, labelset_ gives distinct keys distinct integers, __UNK__ is
\* 0 (and ROOT 1, UNRELATED 2 for LabelVectorizer), every other label is at
\* 1 or more (3 or more), and no call or consumption of transform changes it.
C7_LabelsetInjectiveAndFixed ==
    /\ []LabelsetWellFormed
    /\ [][Constructed => labelset_' = labelset_]_vars

C7_Witness ==
    /\ pc = "transforming"
    /\ gen = "exhausted"
    /\ vectorizer = "LabelVectorizer"
    /\ labels = <<"a", "b", "a">>
    /\ labelset_["a"] = 5
    /\ labelset_["b"] = 4
    /\ emitted = <<2, 5, 4>>

-----------------------------------------------------------------------------
(* Properties of the extract subcommand                                    *)

NothingProcessed ==
    /\ ~corpus_read
    /\ ~dir_created
    /\ dumped = {}
    /\ ran = {}

====
